---- MODULE Spec2Model ----
(***************************************************************************)
(* Blackjack over a fixed-width binary protocol: the wire codec            *)
(* (protocol.py), the server's session handler and round engine            *)
(* (server.py) and the client's mirror state machine (client.py).          *)
(*                                                                         *)
(* Texts are sequences of code points, buffers are sequences of bytes      *)
(* (0..255).  A Python value that may be None is a record: None,           *)
(* Some(v), and Raised for an exception that leaves the expression.        *)
(***************************************************************************)
EXTENDS Integers, Sequences, FiniteSets, TLC

VARIABLES
    codec,      \* codec exercise: one value encoded, possibly damaged, decoded
    scorer,     \* scoring exercise: a hand and the score computed for it
    stream,     \* stream exercise: frames written, bytes in flight, frames read
    srv,        \* per connection: the server thread's locals and position
    cli,        \* per connection: the client's locals and position
    c2s,        \* per connection: client-to-server frames in flight
    s2c,        \* per connection: server-to-client frames in flight
    net,        \* per connection: which ends are open
    hist,       \* per connection: history of what was sent, read and resolved
    rng,        \* the ranks the shuffles of this run bring to the top
    bcast       \* the discovery broadcaster: offers sent so far

vars == <<codec, scorer, stream, srv, cli, c2s, s2c, net, hist, rng, bcast>>

-----------------------------------------------------------------------------
(* Python values *)

None == [tag |-> "None"]
Some(v) == [tag |-> "Some", v |-> v]
Raised == [tag |-> "Raised"]

IsSome(r) == r.tag = "Some"

Min(a, b) == IF a < b THEN a ELSE b

\* data[:n]
Slice(data, n) == SubSeq(data, 1, Min(n, Len(data)))

\* data[n:]
Drop(data, n) == SubSeq(data, n + 1, Len(data))

Zeros(n) == [i \in 1..n |-> 0]

\* bytes.ljust(n, b'\0'); struct's 'Ns' pads a short field the same way
Ljust(data, n) == IF Len(data) >= n THEN data ELSE data \o Zeros(n - Len(data))

\* str.encode('utf-8'), for code points below 2048
Utf8Char(c) == IF c < 128 THEN <<c>> ELSE <<192 + (c \div 64), 128 + (c % 64)>>

RECURSIVE Utf8Encode(_)
Utf8Encode(text) ==
    IF text = <<>> THEN <<>> ELSE Utf8Char(Head(text)) \o Utf8Encode(Tail(text))

\* bytes.decode('utf-8'): Some(text), or Raised (UnicodeDecodeError) on a
\* stray continuation byte or a lead byte without its continuation; text
\* is what has been decoded before data
RECURSIVE Utf8DecodeOnto(_, _)
Utf8DecodeOnto(text, data) ==
    IF data = <<>> THEN Some(text)
    ELSE IF data[1] < 128
         THEN Utf8DecodeOnto(Append(text, data[1]), Tail(data))
    ELSE IF data[1] >= 194 /\ data[1] < 224 /\ Len(data) >= 2
            /\ data[2] >= 128 /\ data[2] < 192
         THEN Utf8DecodeOnto(Append(text, (data[1] - 192) * 64 + (data[2] - 128)),
                             Tail(Tail(data)))
    ELSE Raised

Utf8Decode(data) == Utf8DecodeOnto(<<>>, data)

\* str.rstrip('\0'), looking at the first n characters
RECURSIVE RStripNulTo(_, _)
RStripNulTo(text, n) ==
    IF n > 0 /\ text[n] = 0 THEN RStripNulTo(text, n - 1) ELSE SubSeq(text, 1, n)

RStripNul(text) == RStripNulTo(text, Len(text))

\* struct '!H'
U16(n) == <<n \div 256, n % 256>>
FromU16(data) == data[1] * 256 + data[2]

\* try: ... except: return None
TryExcept(r) == IF r = Raised THEN None ELSE r

-----------------------------------------------------------------------------
(* protocol.py *)

\* 0xabcddcba as struct '!I' lays it out
MAGIC_COOKIE == <<171, 205, 220, 186>>
MSG_TYPE_OFFER == 2
MSG_TYPE_REQUEST == 3
MSG_TYPE_PAYLOAD == 4
UDP_PORT == 13122

RESULT_WIN == 3
RESULT_LOSS == 2
RESULT_TIE == 1
RESULT_ACTIVE == 0

build_offer_packet(server_port, server_name) ==
    LET name_bytes == Ljust(Slice(Utf8Encode(server_name), 32), 32)
    IN MAGIC_COOKIE \o <<MSG_TYPE_OFFER>> \o U16(server_port) \o name_bytes

parse_offer_packet(data) ==
    TryExcept(
        IF Len(data) # 39 THEN None
        ELSE LET magic == SubSeq(data, 1, 4)
                 m_type == data[5]
                 port == FromU16(SubSeq(data, 6, 7))
                 name == Utf8Decode(SubSeq(data, 8, 39))
             IN IF magic # MAGIC_COOKIE \/ m_type # MSG_TYPE_OFFER THEN None
                ELSE IF name = Raised THEN Raised
                ELSE Some(<<port, RStripNul(name.v)>>))

build_request_packet(num_rounds, team_name) ==
    LET name_bytes == Ljust(Slice(Utf8Encode(team_name), 32), 32)
    IN MAGIC_COOKIE \o <<MSG_TYPE_REQUEST, num_rounds>> \o name_bytes

\* a decoder that does not compare the magic cookie
parse_request_any_magic(data) ==
    IF Len(data) # 38 \/ data[5] # MSG_TYPE_REQUEST THEN None
    ELSE LET name == Utf8Decode(SubSeq(data, 7, 38))
         IN IF name = Raised THEN None ELSE Some(<<data[6], RStripNul(name.v)>>)

parse_request_packet(data) ==
    TryExcept(
        IF Len(data) # 38 THEN None
        ELSE LET magic == SubSeq(data, 1, 4)
                 m_type == data[5]
                 rounds == data[6]
                 name == Utf8Decode(SubSeq(data, 7, 38))
             IN IF magic # MAGIC_COOKIE \/ m_type # MSG_TYPE_REQUEST THEN None
                ELSE IF name = Raised THEN Raised
                ELSE Some(<<rounds, RStripNul(name.v)>>))

build_server_payload(result, rank, suit) ==
    MAGIC_COOKIE \o <<MSG_TYPE_PAYLOAD, result>> \o U16(rank) \o <<suit>>

parse_server_payload(data) ==
    TryExcept(
        IF Len(data) # 9 THEN None
        ELSE LET magic == SubSeq(data, 1, 4)
                 m_type == data[5]
                 result == data[6]
                 rank == FromU16(SubSeq(data, 7, 8))
                 suit == data[9]
             IN IF magic # MAGIC_COOKIE \/ m_type # MSG_TYPE_PAYLOAD THEN None
                ELSE Some(<<result, rank, suit>>))

build_client_payload(decision) ==
    LET decision_bytes == Slice(Utf8Encode(decision), 5)
    IN MAGIC_COOKIE \o <<MSG_TYPE_PAYLOAD>> \o Ljust(decision_bytes, 5)

\* the decoded command keeps its zero padding: there is no rstrip here
parse_client_payload(data) ==
    TryExcept(
        IF Len(data) # 10 THEN None
        ELSE LET magic == SubSeq(data, 1, 4)
                 m_type == data[5]
                 decision == Utf8Decode(SubSeq(data, 6, 10))
             IN IF magic # MAGIC_COOKIE \/ m_type # MSG_TYPE_PAYLOAD THEN None
                ELSE decision)

\* the command tokens, "Hittt" and "Stand"
Hittt == <<72, 105, 116, 116, 116>>
Stand == <<83, 116, 97, 110, 100>>

-----------------------------------------------------------------------------
(* server.py: scoring *)

CardValue(rank) == IF rank = 1 THEN 11 ELSE IF rank >= 10 THEN 10 ELSE rank

\* the for loop of compute_hand_score over the cards still to come:
\* <<total_value, ace_count>>
RECURSIVE ScoreLoop(_, _, _)
ScoreLoop(cards, total_value, ace_count) ==
    IF cards = <<>> THEN <<total_value, ace_count>>
    ELSE ScoreLoop(Tail(cards),
                   total_value + CardValue(Head(cards)[1]),
                   ace_count + (IF Head(cards)[1] = 1 THEN 1 ELSE 0))

\* an if where the while belongs: one ace at most is revalued
AceAdjustOnce(total_value, ace_count) ==
    IF total_value > 21 /\ ace_count > 0 THEN total_value - 10 ELSE total_value

\* while total_value > 21 and ace_count > 0
RECURSIVE AceAdjust(_, _)
AceAdjust(total_value, ace_count) ==
    IF total_value > 21 /\ ace_count > 0
    THEN AceAdjust(total_value - 10, ace_count - 1)
    ELSE total_value

compute_hand_score(cards) ==
    LET t == ScoreLoop(cards, 0, 0) IN AceAdjust(t[1], t[2])

-----------------------------------------------------------------------------
(* server.py: the deck *)

FullDeck == (1..13) \X (0..3)

\* The shuffles explored: the ranks in rng come first, and of each rank the
\* suits come out lowest first.  Once those ranks are gone the next rank of
\* RankOrder that is left comes.
NumRanks == 2
RankOrder == <<1, 13, 6, 5, 9, 2, 10, 3, 7, 4, 8, 11, 12>>
DrawRanks == {RankOrder[i] : i \in 1..Min(NumRanks, 13)}

LowestSuit(deck, card) == \A d \in deck : d[1] = card[1] => d[2] >= card[2]

NextRank(deck) ==
    RankOrder[CHOOSE i \in 1..13 :
                 /\ \E d \in deck : d[1] = RankOrder[i]
                 /\ \A j \in 1..(i - 1) : \A d \in deck : d[1] # RankOrder[j]]

\* a draw from a full fresh deck each time, whatever has been dealt
PopFromFreshDeck(deck) ==
    {card \in FullDeck : card[1] \in rng /\ LowestSuit(FullDeck, card)}

\* what deck.pop() may return after random.shuffle(deck); deck is not empty
Pop(deck) ==
    LET ranks == IF \E d \in deck : d[1] \in rng THEN rng ELSE {NextRank(deck)}
    IN {card \in deck : card[1] \in ranks /\ LowestSuit(deck, card)}

-----------------------------------------------------------------------------
(* the connections *)

Conns == {1, 2}

MaxRounds == 2

\* "Nadav's Casino" and "Tussi's Team"
SERVER_NAME == <<78, 97, 100, 97, 118, 39, 115, 32, 67, 97, 115, 105, 110, 111>>
TEAM_NAME == <<84, 117, 115, 115, 105, 39, 115, 32, 84, 101, 97, 109>>

\* the ephemeral port the listening socket got
TcpPort == 50007

RECURSIVE Flatten(_)
Flatten(frames) ==
    IF frames = <<>> THEN <<>> ELSE Head(frames) \o Flatten(Tail(frames))

\* what recv(1024) may return from a queue of whole frames: the first k of
\* them run together, never more than 1024 bytes
Chunks(queue) ==
    {k \in 1..Len(queue) : Len(Flatten(SubSeq(queue, 1, k))) <= 1024}

SrvIdle ==
    [pc |-> "idle", rounds_requested |-> 0, round |-> 0, deck |-> {},
     player_hand |-> <<>>, dealer_hand |-> <<>>,
     player_score |-> 0, dealer_score |-> 0]

CliIdle ==
    [pc |-> "init", total_rounds |-> 0, wins_count |-> 0,
     rounds_completed |-> 0, player_sum |-> 0, ace_counter |-> 0,
     cards_counter |-> 0, is_player_turn |-> TRUE, data |-> <<>>,
     opening |-> "request"]

HistIdle ==
    [requested |-> -1, started |-> 0, results |-> <<>>, seen |-> <<>>,
     timed_out |-> FALSE, fault |-> FALSE, ended |-> "no"]

\* sendall on a connection whose peer is gone either still succeeds (the
\* bytes are dropped) or raises; on an open one it succeeds
SrvSendOutcomes(c) == IF net[c].cli = "open" THEN {TRUE} ELSE {TRUE, FALSE}
CliSendOutcomes(c) == IF net[c].srv = "closed" THEN {TRUE, FALSE} ELSE {TRUE}

\* sendall blocks while the client's receive buffer is full
MaxInFlight == 3
CanSend(c) == net[c].cli # "open" \/ Len(s2c[c]) < MaxInFlight

\* the queue after the server has sent the frames: nothing is kept for a
\* client that is gone
Sent(c, frames) == IF net[c].cli = "open" THEN s2c[c] \o frames ELSE <<>>

\* every payload sent as ACTIVE
send_card_always_active(result_code, card) ==
    build_server_payload(RESULT_ACTIVE, card[1], card[2])

send_card_payload(result_code, card) ==
    build_server_payload(result_code, card[1], card[2])

\* a close that takes the listening side down with it: every connection
\* of the server is closed
SrvCloseAll(c, how) ==
    /\ srv' = [srv EXCEPT ![c] = [SrvIdle EXCEPT !.pc = "closed"]]
    /\ net' = [d \in Conns |-> [net[d] EXCEPT !.srv = "closed"]]
    /\ c2s' = [c2s EXCEPT ![c] = <<>>]
    /\ hist' = [hist EXCEPT ![c].ended = how,
                             ![c].timed_out = @ \/ how = "timeout",
                             ![c].fault = @ \/ how # "finished"]

\* handle_client_session's finally: connection.close()
SrvClose(c, how) ==
    /\ srv' = [srv EXCEPT ![c] = [SrvIdle EXCEPT !.pc = "closed"]]
    /\ net' = [net EXCEPT ![c].srv = "closed"]
    /\ c2s' = [c2s EXCEPT ![c] = <<>>]
    /\ hist' = [hist EXCEPT ![c].ended = how,
                             ![c].timed_out = @ \/ how = "timeout",
                             ![c].fault = @ \/ how # "finished"]

\* run_single_round returns: the for loop goes on
Returned(s) ==
    [s EXCEPT !.pc = "loop", !.round = @ + 1, !.deck = {},
              !.player_hand = <<>>, !.dealer_hand = <<>>,
              !.player_score = 0, !.dealer_score = 0]

Others == <<codec, scorer, stream, rng, bcast>>

-----------------------------------------------------------------------------
(* server.py: handle_client_session *)

\* run(): accept() hands the connection to a new thread
Accept(c) ==
    /\ srv[c].pc = "idle"
    /\ net[c].cli # "none"
    /\ srv' = [srv EXCEPT ![c].pc = "request"]
    /\ net' = [net EXCEPT ![c].srv = "open"]
    /\ UNCHANGED <<cli, c2s, s2c, hist, Others>>

\* a session that plays a round for whatever its first read brought
ReadRequestPlaysAnyway(c) ==
    /\ srv[c].pc = "request"
    /\ \E k \in Chunks(c2s[c]) :
          LET request == parse_request_packet(Flatten(SubSeq(c2s[c], 1, k)))
              rounds == IF request = None THEN 1 ELSE request.v[1]
          IN /\ srv' = [srv EXCEPT ![c].pc = "loop",
                                    ![c].rounds_requested = rounds]
             /\ c2s' = [c2s EXCEPT ![c] = SubSeq(@, k + 1, Len(@))]
             /\ hist' = [hist EXCEPT ![c].requested = rounds]
             /\ UNCHANGED <<cli, s2c, net, Others>>

\* request_data = connection.recv(1024), returning data or b'' at end of stream
ReadRequest(c) ==
    /\ srv[c].pc = "request"
    /\ \/ \E k \in Chunks(c2s[c]) :
            LET request == parse_request_packet(Flatten(SubSeq(c2s[c], 1, k)))
            IN IF request = None
               THEN /\ SrvClose(c, "invalid")
                    /\ UNCHANGED <<cli, s2c, Others>>
               ELSE /\ srv' = [srv EXCEPT ![c].pc = "loop",
                                          ![c].rounds_requested = request.v[1]]
                    /\ c2s' = [c2s EXCEPT ![c] = SubSeq(@, k + 1, Len(@))]
                    /\ hist' = [hist EXCEPT ![c].requested = request.v[1]]
                    /\ UNCHANGED <<cli, s2c, net, Others>>
       \/ /\ c2s[c] = <<>>
          /\ net[c].cli = "closed"
          /\ parse_request_packet(<<>>) = None
          /\ SrvClose(c, "invalid")
          /\ UNCHANGED <<cli, s2c, Others>>

\* the recv raises: socket.timeout after 60 s of silence, or a reset
RequestFails(c) ==
    /\ srv[c].pc = "request"
    /\ c2s[c] = <<>>
    /\ IF net[c].cli = "open"
       THEN /\ SrvClose(c, "timeout")
            /\ UNCHANGED <<cli, s2c, Others>>
       ELSE /\ SrvClose(c, "error")
            /\ UNCHANGED <<cli, s2c, Others>>

\* a loop that runs once too often
RoundsLeftInclusive(s) == s.round <= s.rounds_requested

\* for _ in range(rounds_requested)
RoundsLeft(s) == s.round < s.rounds_requested

\* the for loop is exhausted, then finally: close
Finish(c) ==
    /\ srv[c].pc = "loop"
    /\ ~RoundsLeft(srv[c])
    /\ SrvClose(c, "finished")
    /\ UNCHANGED <<cli, s2c, Others>>

-----------------------------------------------------------------------------
(* server.py: run_single_round *)

\* the for loop's next iteration enters run_single_round: a fresh shuffled
\* deck, two cards each
StartRound(c) ==
    /\ srv[c].pc = "loop"
    /\ RoundsLeft(srv[c])
    /\ \E p1 \in Pop(FullDeck) : \E p2 \in Pop(FullDeck \ {p1}) :
       \E d1 \in Pop(FullDeck \ {p1, p2}) : \E d2 \in Pop(FullDeck \ {p1, p2, d1}) :
          srv' = [srv EXCEPT ![c].pc = "deal1",
                             ![c].deck = FullDeck \ {p1, p2, d1, d2},
                             ![c].player_hand = <<p1, p2>>,
                             ![c].dealer_hand = <<d1, d2>>]
    /\ hist' = [hist EXCEPT ![c].started = @ + 1]
    /\ UNCHANGED <<cli, c2s, s2c, net, Others>>

Deal1(c) ==
    /\ srv[c].pc = "deal1"
    /\ CanSend(c)
    /\ \E ok \in SrvSendOutcomes(c) :
          IF ok
          THEN /\ srv' = [srv EXCEPT ![c].pc = "deal2"]
               /\ s2c' = [s2c EXCEPT ![c] = Sent(c,
                      <<send_card_payload(RESULT_ACTIVE, srv[c].player_hand[1])>>)]
               /\ UNCHANGED <<cli, c2s, net, hist, Others>>
          ELSE /\ SrvClose(c, "error")
               /\ UNCHANGED <<cli, s2c, Others>>

Deal2(c) ==
    /\ srv[c].pc = "deal2"
    /\ CanSend(c)
    /\ \E ok \in SrvSendOutcomes(c) :
          IF ok
          THEN /\ srv' = [srv EXCEPT ![c].pc = "deal3"]
               /\ s2c' = [s2c EXCEPT ![c] = Sent(c,
                      <<send_card_payload(RESULT_ACTIVE, srv[c].player_hand[2])>>)]
               /\ UNCHANGED <<cli, c2s, net, hist, Others>>
          ELSE /\ SrvClose(c, "error")
               /\ UNCHANGED <<cli, s2c, Others>>

\* a loop that asks for a decision at 21 as well
PlayerLoopAt21(player_score) == IF player_score <= 21 THEN "player" ELSE "reveal"

\* while player_score < 21: the next position of the round
PlayerLoop(player_score) == IF player_score < 21 THEN "player" ELSE "reveal"

\* the dealer's visible card, then player_score is computed
Deal3(c) ==
    /\ srv[c].pc = "deal3"
    /\ CanSend(c)
    /\ \E ok \in SrvSendOutcomes(c) :
          IF ok
          THEN LET player_score == compute_hand_score(srv[c].player_hand)
               IN /\ srv' = [srv EXCEPT ![c].pc = PlayerLoop(player_score),
                                        ![c].player_score = player_score]
                  /\ s2c' = [s2c EXCEPT ![c] = Sent(c,
                         <<send_card_payload(RESULT_ACTIVE, srv[c].dealer_hand[1])>>)]
                  /\ UNCHANGED <<cli, c2s, net, hist, Others>>
          ELSE /\ SrvClose(c, "error")
               /\ UNCHANGED <<cli, s2c, Others>>

\* a hit that never busts
NeverBusted(player_score) == FALSE

\* if player_score > 21, after a hit
Busted(player_score) == player_score > 21

\* the body of the player loop once recv has returned data
Decide(c, data) ==
    LET s == srv[c]
        decision == parse_client_payload(data)
    IN IF decision = Some(Hittt)
       THEN IF s.deck = {}
            THEN /\ srv' = [srv EXCEPT ![c] = Returned(s)]
                 /\ hist' = [hist EXCEPT ![c].fault = TRUE]
                 /\ UNCHANGED s2c
            ELSE \E drawn_card \in Pop(s.deck) : \E ok \in SrvSendOutcomes(c) :
                 LET hand == Append(s.player_hand, drawn_card)
                     player_score == compute_hand_score(hand)
                 IN IF ~ok
                    THEN /\ srv' = [srv EXCEPT ![c] = Returned(s)]
                         /\ hist' = [hist EXCEPT ![c].fault = TRUE]
                         /\ UNCHANGED s2c
                    ELSE IF Busted(player_score)
                    THEN /\ srv' = [srv EXCEPT ![c] = Returned(s)]
                         /\ s2c' = [s2c EXCEPT ![c] = Sent(c,
                                <<send_card_payload(RESULT_LOSS, drawn_card)>>)]
                         /\ hist' = [hist EXCEPT ![c].results =
                                                    Append(@, RESULT_LOSS)]
                    ELSE /\ srv' = [srv EXCEPT
                                ![c].pc = PlayerLoop(player_score),
                                ![c].deck = s.deck \ {drawn_card},
                                ![c].player_hand = hand,
                                ![c].player_score = player_score]
                         /\ s2c' = [s2c EXCEPT ![c] = Sent(c,
                                <<send_card_payload(RESULT_ACTIVE, drawn_card)>>)]
                         /\ UNCHANGED hist
       ELSE /\ srv' = [srv EXCEPT ![c].pc = "reveal"]
            /\ UNCHANGED <<s2c, hist>>

\* decision = parse_client_payload(connection.recv(1024)) and what follows
ReadDecision(c) ==
    /\ srv[c].pc = "player"
    /\ CanSend(c)
    /\ \/ \E k \in Chunks(c2s[c]) :
            /\ Decide(c, Flatten(SubSeq(c2s[c], 1, k)))
            /\ c2s' = [c2s EXCEPT ![c] = SubSeq(@, k + 1, Len(@))]
       \/ /\ c2s[c] = <<>>
          /\ net[c].cli = "closed"
          /\ Decide(c, <<>>)
          /\ UNCHANGED c2s
    /\ UNCHANGED <<cli, net, Others>>

\* the recv raises (socket.timeout, or a reset): except Exception: return
DecisionFails(c) ==
    /\ srv[c].pc = "player"
    /\ c2s[c] = <<>>
    /\ srv' = [srv EXCEPT ![c] = Returned(srv[c])]
    /\ hist' = [hist EXCEPT ![c].timed_out = @ \/ net[c].cli = "open",
                             ![c].fault = TRUE]
    /\ UNCHANGED <<cli, c2s, s2c, net, Others>>

\* the dealer's hidden card, then dealer_score is computed
DealerReveal(c) ==
    /\ srv[c].pc = "reveal"
    /\ CanSend(c)
    /\ \E ok \in SrvSendOutcomes(c) :
          IF ok
          THEN /\ srv' = [srv EXCEPT ![c].pc = "dealer",
                        ![c].dealer_score = compute_hand_score(srv[c].dealer_hand)]
               /\ s2c' = [s2c EXCEPT ![c] = Sent(c,
                      <<send_card_payload(RESULT_ACTIVE, srv[c].dealer_hand[2])>>)]
               /\ UNCHANGED <<cli, c2s, net, hist, Others>>
          ELSE /\ SrvClose(c, "error")
               /\ UNCHANGED <<cli, s2c, Others>>

\* a dealer who stands on 13
DealerStandsEarly(dealer_score) == dealer_score < 13

\* while dealer_score < 17
DealerContinues(dealer_score) == dealer_score < 17

DealerDraw(c) ==
    /\ srv[c].pc = "dealer"
    /\ DealerContinues(srv[c].dealer_score)
    /\ CanSend(c)
    /\ IF srv[c].deck = {}
       THEN /\ SrvClose(c, "error")
            /\ UNCHANGED <<cli, s2c, Others>>
       ELSE \E drawn_card \in Pop(srv[c].deck) : \E ok \in SrvSendOutcomes(c) :
            IF ok
            THEN LET hand == Append(srv[c].dealer_hand, drawn_card)
                 IN /\ srv' = [srv EXCEPT
                           ![c].deck = @ \ {drawn_card},
                           ![c].dealer_hand = hand,
                           ![c].dealer_score = compute_hand_score(hand)]
                    /\ s2c' = [s2c EXCEPT ![c] = Sent(c,
                           <<send_card_payload(RESULT_ACTIVE, drawn_card)>>)]
                    /\ UNCHANGED <<cli, c2s, net, hist, Others>>
            ELSE /\ SrvClose(c, "error")
                 /\ UNCHANGED <<cli, s2c, Others>>

\* equal scores given to the player
RoundResultNoTie(player_score, dealer_score) ==
    IF player_score > 21 THEN RESULT_LOSS
    ELSE IF dealer_score > 21 THEN RESULT_WIN
    ELSE IF player_score >= dealer_score THEN RESULT_WIN
    ELSE RESULT_LOSS

\* Determine Result
RoundResult(player_score, dealer_score) ==
    IF player_score > 21 THEN RESULT_LOSS
    ELSE IF dealer_score > 21 THEN RESULT_WIN
    ELSE IF player_score > dealer_score THEN RESULT_WIN
    ELSE IF dealer_score > player_score THEN RESULT_LOSS
    ELSE RESULT_TIE

Resolve(c) ==
    /\ srv[c].pc = "dealer"
    /\ ~DealerContinues(srv[c].dealer_score)
    /\ CanSend(c)
    /\ \E ok \in SrvSendOutcomes(c) :
          IF ok
          THEN LET round_result ==
                       RoundResult(srv[c].player_score, srv[c].dealer_score)
               IN /\ srv' = [srv EXCEPT ![c] = Returned(srv[c])]
                  /\ s2c' = [s2c EXCEPT ![c] = Sent(c,
                         <<send_card_payload(round_result, <<0, 0>>)>>)]
                  /\ hist' = [hist EXCEPT ![c].results = Append(@, round_result)]
                  /\ UNCHANGED <<cli, c2s, net, Others>>
          ELSE /\ SrvClose(c, "error")
               /\ UNCHANGED <<cli, s2c, Others>>

-----------------------------------------------------------------------------
(* client.py *)

\* protocol.pack_request, pack_payload_client and unpack_payload_server are
\* the client's names for the Request, ClientPayload and ServerPayload
\* layouts of the wire format
pack_request(rounds, team_name) == build_request_packet(rounds, team_name)
pack_payload_client(decision) == build_client_payload(decision)
unpack_payload_server(packet) == parse_server_payload(packet)
unpack_offer(data) == parse_offer_packet(data)

\* finally: tcp_socket.close()
CliClosed(k) == [k EXCEPT !.pc = "done", !.data = <<>>]

CliClose(c) ==
    /\ net' = [net EXCEPT ![c].cli = "closed"]
    /\ s2c' = [s2c EXCEPT ![c] = <<>>]

\* a request whose magic cookie is wrong
BadRequest(rounds) ==
    <<0>> \o Tail(pack_request(rounds, TEAM_NAME))

\* connect_to_server: connect, send the Request, enter run_game_loop.  The
\* round count the user typed is in total_rounds from the start; a peer that
\* is not this client may open with bytes that do not decode, or with none.
Connect(c) ==
    /\ cli[c].pc = "init"
    /\ net[c].cli = "none"
    /\ unpack_offer(bcast.offer) = Some(<<TcpPort, SERVER_NAME>>)
    /\ LET rounds == cli[c].total_rounds
       IN /\ c2s' = [c2s EXCEPT ![c] =
                CASE cli[c].opening = "request" -> <<pack_request(rounds, TEAM_NAME)>>
                  [] cli[c].opening = "garbage" -> <<BadRequest(rounds)>>
                  [] cli[c].opening = "silent" -> <<>>]
          /\ IF rounds > 0
             THEN /\ cli' = [cli EXCEPT ![c].pc = "recv"]
                  /\ net' = [net EXCEPT ![c].cli = "open"]
             ELSE /\ cli' = [cli EXCEPT ![c].pc = "done"]
                  /\ net' = [net EXCEPT ![c].cli = "closed"]
    /\ UNCHANGED <<srv, s2c, hist, Others>>

\* an adjustment that takes 10 off without using up the ace
ClientAdjustKeepsAce(player_sum, ace_counter) ==
    IF player_sum > 21 /\ ace_counter > 0
    THEN <<player_sum - 10, ace_counter>>
    ELSE <<player_sum, ace_counter>>

\* while player_sum > 21 and ace_counter > 0: <<player_sum, ace_counter>>
RECURSIVE ClientAdjust(_, _)
ClientAdjust(player_sum, ace_counter) ==
    IF player_sum > 21 /\ ace_counter > 0
    THEN ClientAdjust(player_sum - 10, ace_counter - 1)
    ELSE <<player_sum, ace_counter>>

\* cards_counter <= 2 or (cards_counter > 3 and is_player_turn)
IsMine(cards_counter, is_player_turn) ==
    cards_counter <= 2 \/ (cards_counter > 3 /\ is_player_turn)

\* the Active Round branch up to the prompt: the shadow state after a card
Shadow(k, rank) ==
    LET cards_counter == k.cards_counter + 1
        mine == IsMine(cards_counter, k.is_player_turn)
        aces == IF rank = 1 /\ mine THEN k.ace_counter + 1 ELSE k.ace_counter
        adj == IF mine THEN ClientAdjust(k.player_sum + CardValue(rank), aces)
               ELSE <<k.player_sum, aces>>
    IN [k EXCEPT !.cards_counter = cards_counter,
                 !.player_sum = adj[1], !.ace_counter = adj[2]]

\* a prompt after every card that is not the player's first
PromptsEarly(k) == k.cards_counter >= 2

\* whether get_player_action is called for the card just counted
Prompts(k) ==
    \/ k.cards_counter = 3
    \/ k.cards_counter > 3 /\ k.is_player_turn /\ k.player_sum <= 21

\* get_player_action: what the user may make it send
Moves(current_sum) == IF current_sum = 21 THEN {Stand} ELSE {Hittt, Stand}

\* while offset + 9 <= len(data): on to the next packet, or back to recv
NextPacket(k, rest) ==
    IF Len(rest) >= 9 THEN [k EXCEPT !.pc = "proc", !.data = rest]
    ELSE [k EXCEPT !.pc = "recv", !.data = <<>>]

\* a tally that counts a tie as no win
EndOfRoundTieLost(k, result_code) ==
    [k EXCEPT !.wins_count = IF result_code = RESULT_WIN THEN @ + 1 ELSE @,
              !.rounds_completed = @ + 1,
              !.player_sum = 0, !.ace_counter = 0, !.cards_counter = 0,
              !.is_player_turn = TRUE]

\* the End of Round branch
EndOfRound(k, result_code) ==
    [k EXCEPT !.wins_count = IF result_code \in {RESULT_WIN, RESULT_TIE}
                             THEN @ + 1 ELSE @,
              !.rounds_completed = @ + 1,
              !.player_sum = 0, !.ace_counter = 0, !.cards_counter = 0,
              !.is_player_turn = TRUE]

\* data = connection.recv(BUFFER_SIZE)
ClientRecv(c) ==
    /\ cli[c].pc = "recv"
    /\ \/ \E n \in Chunks(s2c[c]) :
            /\ cli' = [cli EXCEPT ![c] =
                          NextPacket(cli[c], Flatten(SubSeq(s2c[c], 1, n)))]
            /\ s2c' = [s2c EXCEPT ![c] = SubSeq(@, n + 1, Len(@))]
            /\ UNCHANGED net
       \/ /\ s2c[c] = <<>>
          /\ net[c].srv = "closed"
          /\ cli' = [cli EXCEPT ![c] = CliClosed(cli[c])]
          /\ CliClose(c)
    /\ UNCHANGED <<srv, c2s, hist, Others>>

\* recv returns fewer bytes than the payload at the head of the stream
\* holds; the rest of it stays on the wire for the next recv
ClientRecvPart(c) ==
    /\ cli[c].pc = "recv"
    /\ s2c[c] # <<>>
    /\ \E n \in 1..(Len(Head(s2c[c])) - 1) :
          /\ cli' = [cli EXCEPT ![c] =
                        NextPacket(cli[c], SubSeq(Head(s2c[c]), 1, n))]
          /\ s2c' = [s2c EXCEPT ![c] =
                        <<SubSeq(Head(@), n + 1, Len(Head(@)))>> \o Tail(@)]
    /\ UNCHANGED <<srv, c2s, net, hist, Others>>

\* one pass of the inner while loop
ClientProcess(c) ==
    /\ cli[c].pc = "proc"
    /\ LET k == cli[c]
           packet == Slice(k.data, 9)
           rest == Drop(k.data, 9)
           parsed_payload == unpack_payload_server(packet)
       IN IF parsed_payload = None
          THEN /\ cli' = [cli EXCEPT ![c] = NextPacket(k, rest)]
               /\ UNCHANGED <<c2s, s2c, net, hist>>
          ELSE IF parsed_payload.v[1] # RESULT_ACTIVE
          THEN LET done == EndOfRound(k, parsed_payload.v[1])
               IN /\ hist' = [hist EXCEPT ![c].seen =
                                             Append(@, parsed_payload.v[1])]
                  /\ UNCHANGED c2s
                  /\ IF done.rounds_completed = done.total_rounds
                     THEN /\ cli' = [cli EXCEPT ![c] = CliClosed(done)]
                          /\ CliClose(c)
                     ELSE /\ cli' = [cli EXCEPT ![c] = NextPacket(done, rest)]
                          /\ UNCHANGED <<s2c, net>>
          ELSE LET seen == Shadow(k, parsed_payload.v[2])
               IN IF Prompts(seen)
                  THEN \E move \in Moves(seen.player_sum) :
                       \E ok \in CliSendOutcomes(c) :
                          IF ok
                          THEN /\ cli' = [cli EXCEPT ![c] = NextPacket(
                                     [seen EXCEPT !.is_player_turn =
                                                     @ /\ move # Stand], rest)]
                               /\ c2s' = [c2s EXCEPT ![c] =
                                     IF net[c].srv = "closed" THEN <<>>
                                     ELSE Append(@, pack_payload_client(move))]
                               /\ UNCHANGED <<s2c, net, hist>>
                          ELSE /\ cli' = [cli EXCEPT ![c] = CliClosed(seen)]
                               /\ CliClose(c)
                               /\ hist' = [hist EXCEPT ![c].fault = TRUE]
                               /\ UNCHANGED c2s
                  ELSE /\ cli' = [cli EXCEPT ![c] = NextPacket(seen, rest)]
                       /\ UNCHANGED <<c2s, s2c, net, hist>>
    /\ UNCHANGED <<srv, Others>>

\* the client goes away in the middle of a session
ClientAbort(c) ==
    /\ cli[c].pc \in {"recv", "proc"}
    /\ cli' = [cli EXCEPT ![c] = CliClosed(cli[c])]
    /\ CliClose(c)
    /\ hist' = [hist EXCEPT ![c].fault = TRUE]
    /\ UNCHANGED <<srv, c2s, Others>>

-----------------------------------------------------------------------------
(* server.py: broadcast_offers_loop *)

\* sendto(offer_packet), then sleep(1), for ever
Broadcast ==
    /\ bcast' = [bcast EXCEPT !.pc = IF @ = "send" THEN "sleep" ELSE "send"]
    /\ UNCHANGED <<codec, scorer, stream, srv, cli, c2s, s2c, net, hist, rng>>

-----------------------------------------------------------------------------
(* the game: sessions over the connections whose client is present *)

Off == [phase |-> "off"]

\* the inputs of a run: which clients there are, the round counts their
\* users may type, and the ranks the shuffles bring up
GameInit(present, rounds, ranks) ==
    /\ srv = [c \in Conns |-> SrvIdle]
    /\ cli \in [Conns -> {[CliIdle EXCEPT !.total_rounds = n, !.opening = o] :
                             n \in rounds, o \in {"request", "garbage", "silent"}}
                         \cup {[CliIdle EXCEPT !.pc = "absent"]}]
    /\ \A c \in Conns :
          /\ cli[c].pc = "absent" <=> c \notin present
          /\ cli[c].opening = "request" \/ cli[c].total_rounds = 1
    /\ c2s = [c \in Conns |-> <<>>]
    /\ s2c = [c \in Conns |-> <<>>]
    /\ net = [c \in Conns |-> [cli |-> "none", srv |-> "none"]]
    /\ hist = [c \in Conns |-> HistIdle]
    /\ rng = ranks
    /\ bcast = [pc |-> "sleep", offer |-> build_offer_packet(TcpPort, SERVER_NAME)]

Init ==
    /\ GameInit({1}, 0..MaxRounds, DrawRanks)
    /\ codec = Off /\ scorer = Off /\ stream = Off

Session(c) ==
    \/ Accept(c) \/ ReadRequest(c) \/ RequestFails(c) \/ Finish(c)
    \/ StartRound(c) \/ Deal1(c) \/ Deal2(c) \/ Deal3(c)
    \/ ReadDecision(c) \/ DecisionFails(c)
    \/ DealerReveal(c) \/ DealerDraw(c) \/ Resolve(c)

Client(c) ==
    \/ Connect(c) \/ ClientRecv(c) \/ ClientProcess(c) \/ ClientAbort(c)

Next == \E c \in Conns : Session(c) \/ Client(c)

Spec == Init /\ [][Next]_vars

\* two clients served at once, one round each, with the broadcaster running
InitTwo ==
    /\ GameInit({1, 2}, {1}, {RankOrder[1]})
    /\ codec = Off /\ scorer = Off /\ stream = Off

NextTwo == Next \/ Broadcast

SpecTwo == InitTwo /\ [][NextTwo]_vars

\* a session in which nothing fails: the client sends its Request and
\* answers every prompt, no read times out and nobody goes away; the server's
\* thread and the client's process each keep running
InitLive ==
    /\ Init
    /\ \A c \in Conns : cli[c].opening = "request"

SessionLive(c) ==
    \/ Accept(c) \/ ReadRequest(c) \/ Finish(c)
    \/ StartRound(c) \/ Deal1(c) \/ Deal2(c) \/ Deal3(c)
    \/ ReadDecision(c)
    \/ DealerReveal(c) \/ DealerDraw(c) \/ Resolve(c)

ClientLive(c) == Connect(c) \/ ClientRecv(c) \/ ClientProcess(c)

NextLive == \E c \in Conns : SessionLive(c) \/ ClientLive(c)

SpecLive ==
    /\ InitLive
    /\ [][NextLive]_vars
    /\ \A c \in Conns : WF_vars(SessionLive(c)) /\ WF_vars(ClientLive(c))

\* a session of one round at most on a stream that may hand the client a
\* payload in two reads
InitSplit ==
    /\ InitLive
    /\ \A c \in Conns : cli[c].total_rounds <= 1

ClientSplit(c) == ClientLive(c) \/ ClientRecvPart(c)

NextSplit == \E c \in Conns : SessionLive(c) \/ ClientSplit(c)

SpecSplit ==
    /\ InitSplit
    /\ [][NextSplit]_vars
    /\ \A c \in Conns : WF_vars(SessionLive(c)) /\ WF_vars(ClientSplit(c))

Game == <<srv, cli, c2s, s2c, net, hist, rng, bcast>>

\* no client, no session
NoGame == GameInit({}, {0}, {})

-----------------------------------------------------------------------------
(* the codec on its own: a value is encoded, the buffer possibly damaged,   *)
(* and the buffer is decoded by the decoder of its kind                     *)

\* n times the letter a, then the code points of tail
Text(n, tail) == [i \in 1..n |-> 97] \o tail

\* the letter e with an acute accent: two bytes in UTF-8
EAcute == <<233>>

\* names around the 32-byte field, with and without a two-byte character
\* that the field's end may split
Names ==
    {Text(n, <<>>) : n \in {0, 1, 31, 32, 33}}
        \cup {Text(n, EAcute) : n \in {0, 30, 31}}

\* commands around the 5-byte field, and the two tokens
Commands ==
    {Text(n, <<>>) : n \in {0, 3, 5, 6}}
        \cup {Text(n, EAcute) : n \in {3, 4}} \cup {Hittt, Stand}

CodecValues(kind) ==
    CASE kind = "offer" -> {<<port, name>> : port \in {0, UDP_PORT, 65535}, name \in Names}
      [] kind = "request" -> {<<rounds, name>> : rounds \in {0, 1, 255}, name \in Names}
      [] kind = "server" -> {0, 1, 2, 3} \X {0, 1, 13, 65535} \X {0, 3, 255}
      [] kind = "client" -> {<<command>> : command \in Commands}

Kinds == {"offer", "request", "server", "client"}

Build(kind, val) ==
    CASE kind = "offer" -> build_offer_packet(val[1], val[2])
      [] kind = "request" -> build_request_packet(val[1], val[2])
      [] kind = "server" -> build_server_payload(val[1], val[2], val[3])
      [] kind = "client" -> build_client_payload(val[1])

Parse(kind, data) ==
    CASE kind = "offer" -> parse_offer_packet(data)
      [] kind = "request" -> parse_request_packet(data)
      [] kind = "server" -> parse_server_payload(data)
      [] kind = "client" -> parse_client_payload(data)

InitCodec ==
    /\ NoGame
    /\ scorer = Off /\ stream = Off
    /\ \E kind \in Kinds : \E val \in CodecValues(kind) :
          codec = [phase |-> "value", kind |-> kind, val |-> val,
                   wire |-> <<>>, damage |-> "none", out |-> None]

Encode ==
    /\ codec.phase = "value"
    /\ codec' = [codec EXCEPT !.phase = "wire",
                              !.wire = Build(codec.kind, codec.val)]
    /\ UNCHANGED <<scorer, stream, Game>>

\* the ways a buffer is not a message of its kind: a byte short, a byte
\* long, a changed byte of the magic cookie, another type tag
Damage ==
    /\ codec.phase = "wire"
    /\ codec.damage = "none"
    /\ \/ codec' = [codec EXCEPT !.damage = "short",
                                 !.wire = SubSeq(@, 1, Len(@) - 1)]
       \/ codec' = [codec EXCEPT !.damage = "long", !.wire = Append(@, 0)]
       \/ \E i \in 1..4 :
             codec' = [codec EXCEPT !.damage = "magic",
                          !.wire = [@ EXCEPT ![i] = (@ + 1) % 256]]
       \/ \E tag \in {0, MSG_TYPE_OFFER, MSG_TYPE_REQUEST, MSG_TYPE_PAYLOAD, 255} :
             /\ tag # codec.wire[5]
             /\ codec' = [codec EXCEPT !.damage = "tag",
                             !.wire = [@ EXCEPT ![5] = tag]]
    /\ UNCHANGED <<scorer, stream, Game>>

Decode ==
    /\ codec.phase = "wire"
    /\ codec' = [codec EXCEPT !.phase = "decoded",
                              !.out = Parse(codec.kind, codec.wire)]
    /\ UNCHANGED <<scorer, stream, Game>>

NextCodec == Encode \/ Damage \/ Decode

SpecCodec == InitCodec /\ [][NextCodec]_vars

-----------------------------------------------------------------------------
(* scoring on its own: hands drawn card by card from one deck, any rank     *)

MaxHand == 4

InitScore ==
    /\ NoGame
    /\ codec = Off /\ stream = Off
    /\ scorer = [phase |-> "hand", deck |-> FullDeck, hand |-> <<>>, score |-> 0]

DrawAndScore ==
    /\ scorer.phase = "hand"
    /\ Len(scorer.hand) < MaxHand
    /\ \E card \in {d \in scorer.deck : LowestSuit(scorer.deck, d)} :
          LET hand == Append(scorer.hand, card)
          IN scorer' = [scorer EXCEPT !.deck = @ \ {card}, !.hand = hand,
                                      !.score = compute_hand_score(hand)]
    /\ UNCHANGED <<codec, stream, Game>>

NextScore == DrawAndScore

SpecScore == InitScore /\ [][NextScore]_vars

-----------------------------------------------------------------------------
(* the client's running score on its own: the player's cards of a round,    *)
(* any rank, counted one by one as the client counts them                   *)

InitShadow ==
    /\ NoGame
    /\ codec = Off /\ stream = Off
    /\ scorer = [phase |-> "shadow", deck |-> FullDeck, hand |-> <<>>,
                 shadow |-> CliIdle]

\* the next card of the player reaches the client; the dealer's visible
\* card, which comes third and is not added, is passed over
CountOwnCard ==
    /\ scorer.phase = "shadow"
    /\ Len(scorer.hand) < MaxHand
    /\ \E card \in {d \in scorer.deck : LowestSuit(scorer.deck, d)} :
          LET k == [scorer.shadow EXCEPT
                       !.cards_counter = IF @ = 2 THEN 3 ELSE @]
          IN scorer' = [scorer EXCEPT !.deck = @ \ {card},
                                      !.hand = Append(@, card),
                                      !.shadow = Shadow(k, card[1])]
    /\ UNCHANGED <<codec, stream, Game>>

NextShadow == CountOwnCard

SpecShadow == InitShadow /\ [][NextShadow]_vars

-----------------------------------------------------------------------------
(* the three stream readers on their own: frames are written whole, the     *)
(* transport hands them over in chunks of any size                          *)

\* BUFFER_SIZE, and the server's recv(1024)
BUFFER_SIZE == 1024

\* what recv(BUFFER_SIZE) may return of the bytes in flight: any prefix
RecvSizes(wire) == 1..Min(Len(wire), BUFFER_SIZE)

StreamFrames(reader) ==
    CASE reader = "request" -> <<pack_request(MaxRounds, TEAM_NAME)>>
      [] reader = "decision" -> <<pack_payload_client(Hittt), pack_payload_client(Stand)>>
      [] reader = "client" -> <<send_card_payload(RESULT_ACTIVE, <<1, 0>>),
                                send_card_payload(RESULT_ACTIVE, <<13, 0>>),
                                send_card_payload(RESULT_WIN, <<0, 0>>)>>

InitStream ==
    /\ NoGame
    /\ codec = Off /\ scorer = Off
    /\ \E reader \in {"request", "decision", "client"} :
          stream = [phase |-> "run", reader |-> reader, pc |-> "recv",
                    todo |-> StreamFrames(reader), sent |-> <<>>,
                    wire |-> <<>>, data |-> <<>>, got |-> <<>>]

\* sendall of the next frame
StreamWrite ==
    /\ stream.phase = "run"
    /\ stream.todo # <<>>
    /\ stream' = [stream EXCEPT !.todo = Tail(@),
                                !.sent = Append(@, Head(stream.todo)),
                                !.wire = @ \o Head(stream.todo)]
    /\ UNCHANGED <<codec, scorer, Game>>

\* handle_client_session: request = parse_request_packet(connection.recv(1024))
StreamReadRequest ==
    /\ stream.phase = "run"
    /\ stream.reader = "request"
    /\ stream.pc = "recv"
    /\ \E n \in RecvSizes(stream.wire) :
          stream' = [stream EXCEPT !.pc = "done",
                        !.wire = Drop(@, n),
                        !.got = Append(@, parse_request_packet(Slice(stream.wire, n)))]
    /\ UNCHANGED <<codec, scorer, Game>>

\* run_single_round: decision = parse_client_payload(connection.recv(1024))
StreamReadDecision ==
    /\ stream.phase = "run"
    /\ stream.reader = "decision"
    /\ \E n \in RecvSizes(stream.wire) :
          stream' = [stream EXCEPT
                        !.wire = Drop(@, n),
                        !.got = Append(@, parse_client_payload(Slice(stream.wire, n)))]
    /\ UNCHANGED <<codec, scorer, Game>>

\* run_game_loop: data = connection.recv(BUFFER_SIZE); offset = 0
StreamClientRecv ==
    /\ stream.phase = "run"
    /\ stream.reader = "client"
    /\ stream.pc = "recv"
    /\ \E n \in RecvSizes(stream.wire) :
          stream' = [NextPacket(stream, Slice(stream.wire, n))
                        EXCEPT !.wire = Drop(stream.wire, n)]
    /\ UNCHANGED <<codec, scorer, Game>>

\* run_game_loop: packet = data[offset:offset + 9]; a packet that does not
\* decode is passed over
StreamClientPacket ==
    /\ stream.phase = "run"
    /\ stream.reader = "client"
    /\ stream.pc = "proc"
    /\ LET parsed_payload == unpack_payload_server(Slice(stream.data, 9))
           next == NextPacket(stream, Drop(stream.data, 9))
       IN stream' = IF parsed_payload = None THEN next
                    ELSE [next EXCEPT !.got = Append(@, parsed_payload)]
    /\ UNCHANGED <<codec, scorer, Game>>

NextStream ==
    \/ StreamWrite \/ StreamReadRequest \/ StreamReadDecision
    \/ StreamClientRecv \/ StreamClientPacket

SpecStream == InitStream /\ [][NextStream]_vars

-----------------------------------------------------------------------------
(* what is claimed of the codec *)

\* the longest prefix of text whose encoding fits in width bytes
Truncated(text, width) ==
    LET fits == {n \in 0..Len(text) : Len(Utf8Encode(SubSeq(text, 1, n))) <= width}
    IN SubSeq(text, 1, CHOOSE n \in fits : \A m \in fits : m <= n)

Expected(kind, val) ==
    CASE kind = "offer" -> <<val[1], Truncated(val[2], 32)>>
      [] kind = "request" -> <<val[1], Truncated(val[2], 32)>>
      [] kind = "server" -> val
      [] kind = "client" -> Truncated(val[1], 5)

\* C4: for every message type, decoding the encoding of a value gives the
\* value back, its text truncated to the field width and without the zero
\* padding, whatever the length of the text.
C4_RoundTrip ==
    (codec.phase = "decoded" /\ codec.damage = "none")
        => codec.out = Some(Expected(codec.kind, codec.val))

FrameSize(kind) ==
    CASE kind = "offer" -> 39 [] kind = "request" -> 38
      [] kind = "server" -> 9 [] kind = "client" -> 10

FrameTag(kind) ==
    CASE kind = "offer" -> MSG_TYPE_OFFER [] kind = "request" -> MSG_TYPE_REQUEST
      [] kind = "server" -> MSG_TYPE_PAYLOAD [] kind = "client" -> MSG_TYPE_PAYLOAD

NotAFrame(kind, data) ==
    \/ Len(data) # FrameSize(kind)
    \/ SubSeq(data, 1, 4) # MAGIC_COOKIE
    \/ data[5] # FrameTag(kind)

\* C5: each decoder returns None, and raises nothing, for a buffer of the
\* wrong length, with another magic cookie or with another type tag.
C5_DecodeRejects ==
    (codec.phase = "decoded" /\ NotAFrame(codec.kind, codec.wire))
        => codec.out = None

C5_Witness ==
    /\ codec.phase = "decoded"
    /\ codec.kind = "request"
    /\ codec.damage = "magic"
    /\ Len(codec.wire) = 38
    /\ codec.out = None

-----------------------------------------------------------------------------
(* what is claimed of the score *)

ClaimedValue(rank) ==
    CASE rank = 1 -> 11 [] rank \in 10..13 -> 10 [] OTHER -> rank

RECURSIVE SumFrom(_, _)
SumFrom(hand, i) ==
    IF i > Len(hand) THEN 0 ELSE ClaimedValue(hand[i][1]) + SumFrom(hand, i + 1)

\* the sum with as few aces revalued as bring it to 21 or less, or with all
\* of them revalued when none does
ClaimedScore(hand) ==
    LET raw == SumFrom(hand, 1)
        aces == Cardinality({i \in 1..Len(hand) : hand[i][1] = 1})
        enough == {n \in 0..aces : raw - 10 * n <= 21}
    IN IF enough = {} THEN raw - 10 * aces
       ELSE raw - 10 * (CHOOSE n \in enough : \A m \in enough : n <= m)

\* the hand holds exactly these ranks, in any order
HandIs(hand, ranks) ==
    /\ Len(hand) = Len(ranks)
    /\ \A r \in 1..13 :
          Cardinality({i \in 1..Len(hand) : hand[i][1] = r})
              = Cardinality({i \in 1..Len(ranks) : ranks[i] = r})

\* C6: the score of a hand is the sum of its card values less 10 for each
\* ace for as long as the total exceeds 21, unclamped on a bust; so
\* {A,K} = 21, {A,A,9} = 21, {A,A,A,8} = 21 and {K,Q,5} = 25.
C6_HandScore ==
    scorer.phase = "hand" =>
        /\ scorer.score = ClaimedScore(scorer.hand)
        /\ HandIs(scorer.hand, <<1, 13>>) => scorer.score = 21
        /\ HandIs(scorer.hand, <<1, 1, 9>>) => scorer.score = 21
        /\ HandIs(scorer.hand, <<1, 1, 1, 8>>) => scorer.score = 21
        /\ HandIs(scorer.hand, <<13, 12, 5>>) => scorer.score = 25

C6_Witness ==
    /\ scorer.phase = "hand"
    /\ HandIs(scorer.hand, <<1, 1, 1, 8>>)
    /\ scorer.score = 21

-----------------------------------------------------------------------------
(* what is claimed of a session *)

Last(seq) == seq[Len(seq)]

\* the server has put one more frame on the way to the client
ServerSent(c) == Len(s2c'[c]) = Len(s2c[c]) + 1

\* the client has put one more frame on the way to the server, and it is
\* not the Request that opens the session
ClientSent(c) == cli[c].pc # "init" /\ Len(c2s'[c]) = Len(c2s[c]) + 1

\* the payload at the head of the client's buffer
HeadPayload(c) == unpack_payload_server(Slice(cli[c].data, 9))

\* C1: in player-turn with a hand below 21 the server sends nothing before
\* it has taken a ClientPayload off the connection, and the client sends a
\* ClientPayload only in reaction to an ACTIVE card it holds: the third card
\* of the round, or a later one it takes for its own.
C1_Synchronous ==
    [][\A c \in Conns :
          /\ (srv[c].pc = "player" /\ ServerSent(c))
                => /\ srv[c].player_score < 21
                   /\ Len(c2s'[c]) < Len(c2s[c])
          /\ ClientSent(c)
                => /\ cli[c].pc = "proc"
                   /\ HeadPayload(c) # None
                   /\ HeadPayload(c).v[1] = RESULT_ACTIVE
                   /\ parse_client_payload(Last(c2s'[c])) \in {Some(Hittt), Some(Stand)}
                   /\ \/ cli[c].cards_counter = 2
                      \/ /\ cli[c].cards_counter >= 3
                         /\ cli[c].is_player_turn]_vars

\* the player has hit once and been prompted again for the card it drew
C1_Witness ==
    /\ srv[1].pc = "player"
    /\ Len(srv[1].player_hand) = 3
    /\ cli[1].cards_counter = 4
    /\ cli[1].is_player_turn
    /\ Len(c2s[1]) = 1

\* C3: after a read of the session has timed out the server sends nothing
\* more on the connection and starts no further round.
C3_TimeoutAbandons ==
    [][\A c \in Conns :
          hist[c].timed_out
              => /\ ~ServerSent(c)
                 /\ hist'[c].started = hist[c].started]_vars

ClaimedResult(player_value, dealer_value) ==
    CASE player_value > 21 -> RESULT_LOSS
      [] player_value <= 21 /\ dealer_value > 21 -> RESULT_WIN
      [] player_value <= 21 /\ dealer_value <= 21 /\ player_value > dealer_value
            -> RESULT_WIN
      [] player_value <= 21 /\ dealer_value <= 21 /\ player_value < dealer_value
            -> RESULT_LOSS
      [] OTHER -> RESULT_TIE

\* the frame the server has just sent, decoded
JustSent(c) == parse_server_payload(Last(s2c'[c]))

\* the player's hand at the end of the round: with the card that came with
\* the result, when one did
FinalPlayerHand(c) ==
    IF JustSent(c).v[2] = 0 THEN srv[c].player_hand
    ELSE Append(srv[c].player_hand, <<JustSent(c).v[2], JustSent(c).v[3]>>)

\* C7: the result code sent for a round is LOSS when the player is over 21,
\* else WIN when the dealer is over 21, else WIN, LOSS or TIE as the
\* player's value is above, below or equal to the dealer's.
C7_Resolution ==
    [][\A c \in Conns :
          (ServerSent(c) /\ JustSent(c).v[1] # RESULT_ACTIVE)
              => /\ JustSent(c).v[1] =
                        ClaimedResult(compute_hand_score(FinalPlayerHand(c)),
                                      compute_hand_score(srv[c].dealer_hand))
                 /\ hist'[c].results = Append(hist[c].results, JustSent(c).v[1])]_vars

\* every outcome has been sent at least once over two rounds
C7_Witness ==
    /\ Len(hist[1].results) = 2
    /\ hist[1].results[1] = RESULT_TIE
    /\ hist[1].results[2] = RESULT_WIN

Wins(results) ==
    Cardinality({i \in 1..Len(results) : results[i] \in {RESULT_WIN, RESULT_TIE}})

InRound == {"deal1", "deal2", "deal3", "player", "reveal", "dealer"}

\* C10 as stated: once a valid Request for N rounds is read, the session
\* has run N rounds when the connection is closed.
C10_ExactlyN ==
    \A c \in Conns :
        (hist[c].requested >= 0 /\ srv[c].pc = "closed")
            => hist[c].started = hist[c].requested

\* C10 as amended: the rounds run one after another, never more than N of
\* them; the session that reaches the end of its loop has run N; a session
\* cut short by an error that escapes a round has run fewer; either way
\* the connection is then closed.
C10_AtMostN ==
    \A c \in Conns :
        hist[c].requested >= 0 =>
            /\ hist[c].started <= hist[c].requested
            /\ srv[c].pc \in InRound => hist[c].started = srv[c].round + 1
            /\ srv[c].pc = "loop" => hist[c].started = srv[c].round
            /\ hist[c].ended = "finished" => hist[c].started = hist[c].requested
            /\ hist[c].ended # "no" <=> srv[c].pc = "closed"
            /\ srv[c].pc = "closed" => net[c].srv = "closed"

C10_Witness ==
    /\ hist[1].requested = 2
    /\ hist[1].started = 2
    /\ hist[1].ended = "finished"
    /\ net[1].srv = "closed"

\* what belongs to one connection
Own(c) == <<srv[c], cli[c], c2s[c], s2c[c], net[c], hist[c]>>

NothingSent(c) ==
    /\ s2c[c] = <<>>
    /\ cli[c].data = <<>>
    /\ cli[c].cards_counter = 0
    /\ hist[c].seen = <<>>
    /\ hist[c].results = <<>>

\* C11: a session whose first read times out, or brings bytes that are no
\* Request, starts no round and sends no ServerPayload, and its connection
\* is closed once that read is over.
C11_RequestAborts ==
    \A c \in Conns :
        (cli[c].opening # "request" \/ hist[c].ended \in {"invalid", "timeout"})
            => /\ hist[c].started = 0
               /\ hist[c].requested = -1
               /\ NothingSent(c)
               /\ srv[c].pc \in {"idle", "request", "closed"}
               /\ srv[c].pc = "closed" <=> hist[c].ended # "no"
               /\ srv[c].pc = "closed" => net[c].srv = "closed"

\* bytes with a wrong magic cookie were read and the connection closed,
\* with the client still there
C11_Witness ==
    /\ cli[1].opening = "garbage"
    /\ hist[1].ended = "invalid"
    /\ net[1].srv = "closed"
    /\ net[1].cli = "open"

\* the cards are all different
Distinct(cards) ==
    \A i \in 1..Len(cards) : \A j \in 1..Len(cards) :
        i # j => cards[i] # cards[j]

\* the cards of a sequence, as a set
CardsOf(cards) == {cards[i] : i \in 1..Len(cards)}

\* C12: in every state of a round the cards of the two hands are pairwise
\* different cards of the deck of 52, none of them is left in the deck, and
\* a card that busts the player is none of the cards dealt before it.
C12_NoCardTwice ==
    [][\A c \in Conns :
          LET s == srv'[c]
              cards == s.player_hand \o s.dealer_hand
          IN /\ Distinct(cards)
             /\ CardsOf(cards) \subseteq FullDeck
             /\ s.pc \in InRound
                   => /\ s.deck \cap CardsOf(cards) = {}
                      /\ s.deck \cup CardsOf(cards) = FullDeck
             /\ (ServerSent(c) /\ JustSent(c).v[2] # 0)
                   => LET card == <<JustSent(c).v[2], JustSent(c).v[3]>>
                      IN /\ card \in FullDeck
                         /\ JustSent(c).v[1] # RESULT_ACTIVE
                               => card \notin CardsOf(srv[c].player_hand
                                                         \o srv[c].dealer_hand)]_vars

\* both sides have drawn: three cards each in the hands
C12_Witness ==
    /\ srv[1].pc = "dealer"
    /\ Len(srv[1].player_hand) = 3
    /\ Len(srv[1].dealer_hand) = 3

\* the bytes the server's read has taken off the connection in this step
Taken(c) == Flatten(SubSeq(c2s[c], 1, Len(c2s[c]) - Len(c2s'[c])))

\* the server's read in player-turn has returned in this step: with bytes,
\* or with none at the end of the stream
HasRead(c) ==
    /\ srv[c].pc = "player"
    /\ srv'[c] # srv[c]
    /\ \/ Len(c2s'[c]) < Len(c2s[c])
       \/ /\ c2s[c] = <<>>
          /\ net[c].cli = "closed"
          /\ srv'[c].pc = "reveal"

\* the card of the frame the server has just sent
SentCard(c) == <<JustSent(c).v[2], JustSent(c).v[3]>>

\* the round goes on with one card more in the player's hand
OneCardDrawn(c) ==
    /\ srv'[c].pc \in {"player", "reveal"}
    /\ \E card \in srv[c].deck :
          /\ srv'[c].player_hand = Append(srv[c].player_hand, card)
          /\ srv'[c].deck = srv[c].deck \ {card}
    /\ srv'[c].dealer_hand = srv[c].dealer_hand
    /\ srv'[c].player_score = compute_hand_score(srv'[c].player_hand)

\* the round is over in this step
RoundOver(c) ==
    /\ srv[c].pc \in InRound
    /\ srv'[c].pc \in {"loop", "closed"}

\* C13: the server reads a decision only with the player below 21; on the
\* hit token it draws one card for the player, and on anything else read
\* (the stand token, another command, bytes that are no ClientPayload, the
\* end of the stream) it leaves the hands as they are and goes on to the
\* dealer's turn.
C13_PlayerTurn ==
    [][\A c \in Conns :
          /\ (srv[c].pc = "player" /\ srv'[c] # srv[c])
                => /\ srv[c].player_score < 21
                   /\ srv[c].player_score = compute_hand_score(srv[c].player_hand)
          /\ HasRead(c)
                => IF parse_client_payload(Taken(c)) = Some(Hittt)
                   THEN \/ OneCardDrawn(c)
                        \/ RoundOver(c)
                   ELSE /\ srv'[c] = [srv[c] EXCEPT !.pc = "reveal"]
                        /\ s2c'[c] = s2c[c]
                        /\ hist'[c] = hist[c]]_vars

\* the player has drawn a third card and then stood below 21
C13_Witness ==
    /\ srv[1].pc = "reveal"
    /\ Len(srv[1].player_hand) = 3
    /\ srv[1].player_score < 21
    /\ net[1].cli = "open"

\* C14: a hit that takes the player over 21 is sent with LOSS and ends the
\* round in that step, so that neither the dealer's hidden card nor any
\* other payload of the round follows; a hit that leaves the player at 21
\* or less is sent as ACTIVE and the round goes on.
C14_Bust ==
    [][\A c \in Conns :
          /\ (srv[c].pc = "player" /\ ServerSent(c))
                => LET hand == Append(srv[c].player_hand, SentCard(c))
                   IN /\ SentCard(c) \in srv[c].deck
                      /\ JustSent(c).v[1] \in {RESULT_ACTIVE, RESULT_LOSS}
                      /\ JustSent(c).v[1] = RESULT_LOSS
                            <=> compute_hand_score(hand) > 21
                      /\ JustSent(c).v[1] = RESULT_LOSS
                            => /\ RoundOver(c)
                               /\ srv'[c].pc = "loop"
                               /\ hist'[c].results =
                                      Append(hist[c].results, RESULT_LOSS)
                      /\ JustSent(c).v[1] = RESULT_ACTIVE
                            => /\ OneCardDrawn(c)
                               /\ srv'[c].player_hand = hand
          /\ srv'[c].pc \in {"reveal", "dealer"}
                => compute_hand_score(srv'[c].player_hand) <= 21]_vars

\* the player has gone over 21 on a hit: the round is lost and over, the
\* client has the result, and the next round has not begun
C14_Witness ==
    /\ srv[1].pc = "loop"
    /\ srv[1].round = 1
    /\ hist[1].results = <<RESULT_LOSS>>
    /\ cli[1].pc = "recv"
    /\ cli[1].data = <<>>
    /\ s2c[1] = <<send_card_payload(RESULT_LOSS, <<13, 2>>)>>

\* the round's result has gone out in this step
Terminal(c) == Len(hist'[c].results) = Len(hist[c].results) + 1

\* a hand without its last card
ButLast(hand) == SubSeq(hand, 1, Len(hand) - 1)

\* C15: the dealer's turn comes only with the player at 21 or less; it
\* opens with the dealer's second card sent as ACTIVE, then one card is
\* drawn and sent as ACTIVE for as long as the dealer is below 17, over 21
\* or not, so that the result goes out with the dealer at 17 or more and,
\* if the dealer drew, below 17 before the last draw.
C15_DealerTurn ==
    [][\A c \in Conns :
          LET s == srv[c]
          IN /\ srv'[c].pc \in {"reveal", "dealer"}
                   => /\ compute_hand_score(srv'[c].player_hand) <= 21
                      /\ Len(srv'[c].dealer_hand) >= 2
             /\ (s.pc = "reveal" /\ srv'[c] # s)
                   => /\ Len(s.dealer_hand) = 2
                      /\ ~Terminal(c)
                      /\ srv'[c].pc \in {"dealer", "closed"}
                      /\ srv'[c].pc = "dealer"
                            => /\ srv'[c].dealer_hand = s.dealer_hand
                               /\ srv'[c].dealer_score =
                                      compute_hand_score(s.dealer_hand)
                      /\ ServerSent(c)
                            => /\ JustSent(c).v[1] = RESULT_ACTIVE
                               /\ SentCard(c) = s.dealer_hand[2]
             /\ (s.pc = "dealer" /\ srv'[c] # s)
                   => /\ s.dealer_score = compute_hand_score(s.dealer_hand)
                      /\ Terminal(c) <=> (s.dealer_score >= 17 /\ srv'[c].pc = "loop")
                      /\ Terminal(c)
                            => (Len(s.dealer_hand) > 2
                                  => compute_hand_score(ButLast(s.dealer_hand)) < 17)
                      /\ srv'[c].pc = "dealer"
                            => /\ s.dealer_score < 17
                               /\ \E card \in s.deck :
                                     /\ srv'[c].dealer_hand = Append(s.dealer_hand, card)
                                     /\ srv'[c].deck = s.deck \ {card}
                                     /\ ServerSent(c)
                                           => /\ JustSent(c).v[1] = RESULT_ACTIVE
                                              /\ SentCard(c) = card]_vars

\* the dealer has drawn twice and gone over 21 on a card sent as ACTIVE
C15_Witness ==
    /\ srv[1].pc = "dealer"
    /\ Len(srv[1].dealer_hand) = 4
    /\ srv[1].dealer_score > 21
    /\ s2c[1] # <<>>
    /\ parse_server_payload(Last(s2c[1])) =
           Some(<<RESULT_ACTIVE, Last(srv[1].dealer_hand)[1], Last(srv[1].dealer_hand)[2]>>)

\* the round ends with nothing sent, on a read or a send that has failed
CutShort(c) ==
    /\ hist'[c].results = hist[c].results
    /\ s2c'[c] = s2c[c]
    /\ hist'[c].fault
    /\ \/ srv[c].pc = "player" /\ c2s[c] = <<>>
       \/ net[c].cli # "open"

\* what every payload of a round is: the result with the sentinel card, or
\* with the busting card from the player's turn, as the round's last; or a
\* card of the deck as ACTIVE with the round going on
PayloadsOfRound(c) ==
    /\ Terminal(c)
          => /\ RoundOver(c)
             /\ srv'[c].pc = "loop"
             /\ Last(hist'[c].results) \in {RESULT_WIN, RESULT_LOSS, RESULT_TIE}
             /\ net[c].cli = "open"
                   => /\ ServerSent(c)
                      /\ JustSent(c).v[1] = Last(hist'[c].results)
                      /\ IF srv[c].pc = "player"
                         THEN /\ JustSent(c).v[1] = RESULT_LOSS
                              /\ SentCard(c) \in FullDeck
                         ELSE SentCard(c) = <<0, 0>>
    /\ ServerSent(c) => srv[c].pc \in InRound
    /\ (ServerSent(c) /\ ~Terminal(c))
          => /\ JustSent(c).v[1] = RESULT_ACTIVE
             /\ SentCard(c) \in FullDeck
             /\ srv'[c].pc \in InRound

\* C16 as stated: every round the server starts ends with its result sent,
\* here for a client that is still connected.
C16_EveryRound ==
    [][\A c \in Conns :
          (RoundOver(c) /\ net[c].cli = "open") => Terminal(c)]_vars

\* C16 as amended: a round ends either with its result sent, as its one
\* payload that is not ACTIVE and its last, or cut short by a failed read
\* or send with no result sent at all; the result carries the sentinel
\* card, or the busting card from the player's turn, and every payload
\* before it is ACTIVE with a card of the deck.
C16_CompletedRound ==
    [][\A c \in Conns :
          /\ RoundOver(c) => (Terminal(c) \/ CutShort(c))
          /\ PayloadsOfRound(c)]_vars

\* a round played to its result with the dealer drawing: six payloads, the
\* last with the sentinel card
C16_Witness ==
    /\ srv[1].pc = "loop"
    /\ srv[1].round = 1
    /\ Len(hist[1].results) = 1
    /\ ~hist[1].fault
    /\ s2c[1] # <<>>
    /\ parse_server_payload(Last(s2c[1])) = Some(<<hist[1].results[1], 0, 0>>)

\* the client is about to count an ACTIVE card of the round the server is
\* in, in a session in which nothing has failed
CountsCard(c) ==
    /\ cli[c].pc = "proc"
    /\ cli'[c] # cli[c]
    /\ HeadPayload(c) # None
    /\ HeadPayload(c).v[1] = RESULT_ACTIVE
    /\ ~hist'[c].fault
    /\ srv[c].pc \in InRound
    /\ Len(hist[c].seen) = srv[c].round

\* C17: the client's shadow state mirrors the server's round: a card the
\* client adds to player_sum is in the server's player hand, a card it
\* takes for the dealer's is in the server's dealer hand, and when the
\* client sends a decision its player_sum is the server's score of the
\* player's hand.
C17_Shadow ==
    [][\A c \in Conns :
          CountsCard(c)
              => LET card == <<HeadPayload(c).v[2], HeadPayload(c).v[3]>>
                     mine == IsMine(cli'[c].cards_counter, cli[c].is_player_turn)
                 IN /\ cli'[c].cards_counter = cli[c].cards_counter + 1
                    /\ mine => card \in CardsOf(srv[c].player_hand)
                    /\ ~mine => card \in CardsOf(srv[c].dealer_hand)
                    /\ ClientSent(c)
                          => cli'[c].player_sum =
                                compute_hand_score(srv[c].player_hand)]_vars

\* C18: when the server sends the result of a round, in a session in which
\* nothing has failed, no ClientPayload the client has sent is left unread
\* on the connection to be read in a later round; not with the player at
\* 21 either.
C18_NoStaleDecision ==
    [][\A c \in Conns :
          (Terminal(c) /\ ~hist'[c].fault) => c2s'[c] = <<>>]_vars

\* C19: after every card of every sequence of player cards, the client's
\* running player_sum, adjusted card by card with ace_counter kept from one
\* card to the next, is the server's compute_hand_score of the whole hand.
C19_Incremental ==
    scorer.phase = "shadow" =>
        /\ scorer.shadow.player_sum = compute_hand_score(scorer.hand)
        /\ scorer.shadow.cards_counter \in {0, 1, 2} \cup {Len(scorer.hand) + 1}

\* two aces and a nine, then a king: the second ace is revalued on the
\* fourth card
C19_Witness ==
    /\ scorer.phase = "shadow"
    /\ Len(scorer.hand) = 4
    /\ HandIs(ButLast(scorer.hand), <<1, 1, 9>>)
    /\ Last(scorer.hand)[1] = 13
    /\ scorer.shadow.player_sum = 21
    /\ scorer.shadow.ace_counter = 0

\* the server waits for a decision and the client for a payload, with
\* nothing on the way in either direction
Stalled(c) ==
    /\ srv[c].pc = "player"
    /\ c2s[c] = <<>>
    /\ cli[c].pc = "recv"
    /\ s2c[c] = <<>>

\* the session is over on both sides, all its rounds played
SessionOver(c) ==
    /\ srv[c].pc = "closed"
    /\ net[c].srv = "closed"
    /\ cli[c].pc = "done"
    /\ net[c].cli = "closed"
    /\ hist[c].started = cli[c].total_rounds
    /\ Len(hist[c].results) = cli[c].total_rounds

\* C20: in a session for N rounds in which the client answers every prompt
\* and the connection stays open, the server is never left waiting for a
\* decision while the client waits for a payload, the deck is never empty
\* in a round, every round that starts comes to its result, and in the end
\* both sides have ended the session with N rounds played.
C20_Terminates ==
    /\ [](\A c \in Conns :
             /\ ~Stalled(c)
             /\ srv[c].pc \in InRound => srv[c].deck # {})
    /\ \A c \in Conns :
          (hist[c].started > Len(hist[c].results))
              ~> (hist[c].started = Len(hist[c].results))
    /\ <>[](\A c \in Conns : cli[c].pc # "absent" => SessionOver(c))

-----------------------------------------------------------------------------
(* what is claimed of the stream readers *)

ParseFor(reader, frame) ==
    CASE reader = "request" -> parse_request_packet(frame)
      [] reader = "decision" -> parse_client_payload(frame)
      [] reader = "client" -> parse_server_payload(frame)

\* C2: however the bytes sent are split into chunks, what a reader decodes
\* are the frames that were sent, in order: no short read passes for a
\* frame, and once everything sent has been read no frame is missing.
C2_PartialDelivery ==
    stream.phase = "run" =>
        /\ Len(stream.got) <= Len(stream.sent)
        /\ \A i \in 1..Len(stream.got) :
              stream.got[i] = ParseFor(stream.reader, stream.sent[i])
        /\ (stream.todo = <<>> /\ stream.wire = <<>> /\ stream.data = <<>>)
              => Len(stream.got) = Len(stream.sent)

====
